---- MODULE Spec2Model ----
(***************************************************************************)
(* saferplace: the SQL persistence engine (internal/database/sqldatabase). *)
(*                                                                         *)
(* The committed content of the three tables is the state; every caller    *)
(* (goroutine) runs one Database method at a time, statement by statement. *)
(* Statements executed through tx.Stmt(...) are buffered in the caller's   *)
(* transaction and reach the tables at tx.Commit(); each statement reads   *)
(* the rows committed at the moment it runs (read committed, the level     *)
(* BeginTx(ctx, nil) gives on a multi-connection SQL store).               *)
(***************************************************************************)
EXTENDS Integers, Sequences, FiniteSets, TLC

VARIABLES
    incidents,   \* table incidents: sequence of rows in store order
    comments,    \* table comments: sequence of rows in store order
    sessions,    \* table sessions: sequence of rows in store order
    uuids,       \* number of uuid.New() values handed out so far
    now,         \* time.Now(), in clock ticks (Second ticks make a second)
    pc,          \* pc[p]: the statement caller p executes next
    req,         \* req[p]: the method p runs and its arguments
    tx,          \* tx[p]: p's transaction (open flag and buffered writes)
    local,       \* local[p]: the method's local variable inc (ViewIncident)
    ret,         \* ret[p]: what the method returned (inc: empty or one incident)
    ops,         \* number of method calls started so far
    hist         \* history: per incident id, first Create input / last Review;
                 \* per session token, when it was saved and found expired

vars == <<incidents, comments, sessions, uuids, now, pc, req, tx, local, ret, ops, hist>>

----------------------------------------------------------------------------
(* Bounds of the model *)

\* total number of method calls started in one behaviour
MaxOps == 3
\* longest sequence of committed reviews the pre-populated store is built from
MaxLen == 4

\* method calls started in one behaviour of the session store
MaxSessionOps == 4
\* resolution of the clock: ticks per second
Second == 2
\* the clock visits the start of each of the hours 0..MaxHours and the tick
\* after it
MaxHours == 1

\* the session TTL in seconds: time.Now().Add(1 * time.Hour)
SessionTTL == 3600

Procs == {"p1", "p2"}
Ids == {"i1", "i2"}
Tokens == {"t1"}
SessionTokens == {"t1", "t2"}

None == "none"

----------------------------------------------------------------------------
(* incident.Resolution: the enumeration and its string (de)serialisation *)

RESOLUTION_UNSPECIFIED == 0
RESOLUTION_ACCEPTED == 1
RESOLUTION_ALERTED == 2
RESOLUTION_REJECTED == 3

\* Resolution.String(): the enumerated name; the decimal number for a value
\* outside the enumeration (the enum type is an open int32).
ResolutionString(r) ==
    CASE r = RESOLUTION_UNSPECIFIED -> "RESOLUTION_UNSPECIFIED"
      [] r = RESOLUTION_ACCEPTED -> "RESOLUTION_ACCEPTED"
      [] r = RESOLUTION_ALERTED -> "RESOLUTION_ALERTED"
      [] r = RESOLUTION_REJECTED -> "RESOLUTION_REJECTED"
      [] OTHER -> ToString(r)

\* incident.Resolution_value[label]: a map lookup, 0 for a missing key.
ResolutionValue(s) ==
    CASE s = "RESOLUTION_UNSPECIFIED" -> RESOLUTION_UNSPECIFIED
      [] s = "RESOLUTION_ACCEPTED" -> RESOLUTION_ACCEPTED
      [] s = "RESOLUTION_ALERTED" -> RESOLUTION_ALERTED
      [] s = "RESOLUTION_REJECTED" -> RESOLUTION_REJECTED
      [] OTHER -> 0

----------------------------------------------------------------------------
(* Inputs *)

\* The incidents callers submit: two different contents for one id, with a
\* resolution field that is unset (0), set, or outside the enumeration.
IncidentInputs ==
    {[id |-> "i1", timestamp |-> 100, description |-> "d1", lat |-> 5, lon |-> 5,
      resolution |-> RESOLUTION_UNSPECIFIED, image |-> "img1"],
     [id |-> "i1", timestamp |-> 200, description |-> "d2", lat |-> 11, lon |-> 0,
      resolution |-> RESOLUTION_ACCEPTED, image |-> "img2"],
     [id |-> "i1", timestamp |-> 100, description |-> "d1", lat |-> 5, lon |-> 5,
      resolution |-> 4, image |-> "img1"],
     [id |-> "i2", timestamp |-> 200, description |-> "d2", lat |-> 11, lon |-> 0,
      resolution |-> RESOLUTION_UNSPECIFIED, image |-> "img2"]}

\* The reviews callers submit: a resolution and a comment.
ReviewInputs ==
    {[res |-> RESOLUTION_ACCEPTED,
      comment |-> [timestamp |-> 300, author |-> "a1", message |-> "m1"]],
     [res |-> RESOLUTION_REJECTED,
      comment |-> [timestamp |-> 100, author |-> "a2", message |-> "m2"]]}

NoReq == [op |-> None]
NoTx == [open |-> FALSE, insInc |-> <<>>, upd |-> <<>>, insCom |-> <<>>]
NoRet == [err |-> None, inc |-> <<>>]

----------------------------------------------------------------------------
(* The store *)

\* rows of a table (a sequence) that satisfy a predicate, in store order
RECURSIVE SelectSeq2(_, _, _)
SelectSeq2(s, key, field) ==
    IF s = <<>> THEN <<>>
    ELSE IF Head(s)[field] = key
         THEN <<Head(s)>> \o SelectSeq2(Tail(s), key, field)
         ELSE SelectSeq2(Tail(s), key, field)

\* SELECT ... FROM incidents WHERE id=?
IncidentRows(id) == SelectSeq2(incidents, id, "id")

\* SELECT * FROM comments WHERE incident_id=?
CommentRows(id) == SelectSeq2(comments, id, "incident_id")

\* (variant: the id column carries no uniqueness constraint)
NoPrimaryKey(id) == FALSE

\* id TEXT PRIMARY KEY on incidents: an INSERT of a stored id is refused
UniqueViolation(id) == IncidentRows(id) # <<>>

\* An INSERT waits while another open transaction holds an uncommitted row
\* with the same key.
InsertBlocked(p, id) ==
    \E q \in Procs \ {p} :
        tx[q].open /\ \E k \in 1..Len(tx[q].insInc) : tx[q].insInc[k].id = id

\* An UPDATE waits while another open transaction holds an uncommitted
\* update of the same row.
UpdateBlocked(p, id) ==
    \E q \in Procs \ {p} :
        tx[q].open /\ \E k \in 1..Len(tx[q].upd) : tx[q].upd[k].id = id

\* (variant: the UPDATE has no WHERE clause)
ApplyUpdatesToAll(rows, upd) ==
    [k \in 1..Len(rows) |->
        IF upd = <<>> THEN rows[k]
        ELSE [rows[k] EXCEPT !.resolution = upd[Len(upd)].resolution]]

\* UPDATE incidents SET resolution=? WHERE id=?
ApplyUpdates(rows, upd) ==
    [k \in 1..Len(rows) |->
        IF \E j \in 1..Len(upd) : upd[j].id = rows[k].id
        THEN LET j == CHOOSE j \in 1..Len(upd) : upd[j].id = rows[k].id
             IN  [rows[k] EXCEPT !.resolution = upd[j].resolution]
        ELSE rows[k]]

\* (variant: the comments of a committing transaction replace the stored ones)
CommentsReplaced(t) == IF t.insCom = <<>> THEN comments ELSE t.insCom

\* the tables after transaction t commits
IncidentsAfterCommit(t) == ApplyUpdates(incidents, t.upd) \o t.insInc
CommentsAfterCommit(t) == comments \o t.insCom

\* (variant: the statements ran outside the transaction, nothing to undo)
IncidentsNotRolledBack(t) == ApplyUpdates(incidents, t.upd) \o t.insInc

\* the tables after transaction t is rolled back (defer tx.Rollback())
IncidentsAfterRollback(t) == incidents
CommentsAfterRollback(t) == comments

----------------------------------------------------------------------------
(* History, kept for stating the properties *)

\* created: the input of the first committed Create; creates: the number of
\* committed Creates; last: the input of the last committed Review (each an
\* empty or one-element sequence)
NoHist == [created |-> <<>>, creates |-> 0, reviewed |-> FALSE, last |-> <<>>]

\* savedAt: the time of the first successful Save of the token (empty or one
\* element); expired: an IsValid of the token has returned "session expired";
\* again: a Save of the token was called after that
NoSessionHist == [savedAt |-> <<>>, expired |-> FALSE, again |-> FALSE]

HistInit == [i \in Ids \cup SessionTokens |-> IF i \in Ids THEN NoHist ELSE NoSessionHist]

Init ==
    /\ incidents = <<>>
    /\ comments = <<>>
    /\ sessions = <<>>
    /\ uuids = 0
    /\ now = 0
    /\ pc = [p \in Procs |-> "idle"]
    /\ req = [p \in Procs |-> NoReq]
    /\ tx = [p \in Procs |-> NoTx]
    /\ local = [p \in Procs |-> <<>>]
    /\ ret = [p \in Procs |-> NoRet]
    /\ ops = 0
    /\ hist = HistInit

\* what a statement can meet: it runs, the store fails, the caller cancelled
\* (the error a method returns then wraps the store's or the context's error)
Outcomes == {"ok", "fault", "canceled"}

Wrap(o) == IF o = "canceled" THEN "wrap:canceled" ELSE "wrap:fault"

Free(p) == pc[p] \in {"idle", "done"}

\* Callers are interchangeable: the second one is used only while the first
\* is inside a method, which loses no interleaving of two concurrent calls.
MayBegin(p) ==
    /\ Free(p) /\ ops < MaxOps
    /\ p = "p1" \/ ~Free("p1")

\* db.db.BeginTx(ctx, nil) at the head of a transactional method
BeginTx(p, r, o) ==
    /\ MayBegin(p)
    /\ ops' = ops + 1
    /\ req' = [req EXCEPT ![p] = r]
    /\ local' = [local EXCEPT ![p] = <<>>]
    /\ IF o = "ok"
       THEN /\ pc' = [pc EXCEPT ![p] = r.first]
            /\ tx' = [tx EXCEPT ![p] = [NoTx EXCEPT !.open = TRUE]]
            /\ ret' = [ret EXCEPT ![p] = NoRet]
       ELSE /\ pc' = [pc EXCEPT ![p] = "done"]
            /\ tx' = [tx EXCEPT ![p] = NoTx]
            /\ ret' = [ret EXCEPT ![p] = [err |-> Wrap(o), inc |-> <<>>]]
    /\ UNCHANGED <<incidents, comments, sessions, uuids, now, hist>>

\* (variant: an error return leaves the transaction as it is)
TxLeftOpen(t) == t

\* defer func() { _ = tx.Rollback() }(): the transaction of a returning
\* method is closed and what it had buffered is dropped
TxRolledBack(t) == NoTx

\* return err from a transactional method, and the deferred tx.Rollback()
ReturnErr(p, e) ==
    /\ pc' = [pc EXCEPT ![p] = "done"]
    /\ ret' = [ret EXCEPT ![p] = [err |-> e, inc |-> <<>>]]
    /\ incidents' = IncidentsAfterRollback(tx[p])
    /\ comments' = CommentsAfterRollback(tx[p])
    /\ tx' = [tx EXCEPT ![p] = TxRolledBack(tx[p])]

\* ... the locals of the method are gone
Fail(p, e) ==
    /\ ReturnErr(p, e)
    /\ local' = [local EXCEPT ![p] = <<>>]

\* ... of a ViewIncident whose ctx was cancelled on the way; what it had
\* read stays on record in local[p]
FailCanceled(p) ==
    /\ ReturnErr(p, "wrap:canceled")
    /\ UNCHANGED local

\* tx.Commit() succeeds: the buffered writes reach the tables
Commit(p) ==
    /\ incidents' = IncidentsAfterCommit(tx[p])
    /\ comments' = CommentsAfterCommit(tx[p])
    /\ tx' = [tx EXCEPT ![p] = NoTx]
    /\ pc' = [pc EXCEPT ![p] = "done"]

\* (variant: the existence check never finds a row)
hasIncidentNever(id) == FALSE

\* (variant: the existence check always reports a row)
hasIncidentAlways(id) == TRUE

\* hasIncident: SELECT id FROM incidents WHERE id=?, then id == existingID
hasIncident(id) ==
    LET rows == IncidentRows(id)
    IN  IF rows = <<>> THEN FALSE ELSE id = rows[1].id

----------------------------------------------------------------------------
(* SaveIncident *)

BeginSaveIncident(p, inc, o) ==
    BeginTx(p, [op |-> "SaveIncident", first |-> "hasIncident", id |-> inc.id,
                inc |-> inc, after |-> IncidentRows(inc.id) # <<>>], o)

\* the existence check of SaveIncident
SaveIncidentCheck(p, o) ==
    /\ pc[p] = "hasIncident" /\ req[p].op = "SaveIncident"
    /\ IF o # "ok" THEN Fail(p, Wrap(o))
       ELSE IF hasIncident(req[p].id) THEN Fail(p, "ErrAlreadyExists")
       ELSE /\ pc' = [pc EXCEPT ![p] = "saveIncident"]
            /\ UNCHANGED <<incidents, comments, tx, local, ret>>
    /\ UNCHANGED <<sessions, uuids, now, req, ops, hist>>

\* (variant: the resolution is stored as its number)
IncidentRowNumbered(inc) ==
    [id |-> inc.id, timestamp |-> inc.timestamp, description |-> inc.description,
     lat |-> inc.lat, lon |-> inc.lon,
     resolution |-> ToString(inc.resolution), image |-> inc.image]

\* the row saveIncidentStmt writes
IncidentRow(inc) ==
    [id |-> inc.id, timestamp |-> inc.timestamp, description |-> inc.description,
     lat |-> inc.lat, lon |-> inc.lon,
     resolution |-> ResolutionString(inc.resolution), image |-> inc.image]

\* tx.Stmt(db.saveIncidentStmt).ExecContext
SaveIncidentInsert(p, o) ==
    /\ pc[p] = "saveIncident"
    /\ IF o # "ok" THEN Fail(p, Wrap(o))
       ELSE /\ ~InsertBlocked(p, req[p].id)
            /\ IF UniqueViolation(req[p].id) THEN Fail(p, "wrap:unique")
               ELSE /\ tx' = [tx EXCEPT ![p].insInc = <<IncidentRow(req[p].inc)>>]
                    /\ pc' = [pc EXCEPT ![p] = "commit"]
                    /\ UNCHANGED <<incidents, comments, local, ret>>
    /\ UNCHANGED <<sessions, uuids, now, req, ops, hist>>

\* tx.Commit() of SaveIncident
SaveIncidentCommit(p, o) ==
    /\ pc[p] = "commit" /\ req[p].op = "SaveIncident"
    /\ IF o # "ok" THEN Fail(p, Wrap(o)) /\ UNCHANGED hist
       ELSE /\ Commit(p)
            /\ ret' = [ret EXCEPT ![p] = [err |-> "nil", inc |-> <<>>]]
            /\ hist' = [hist EXCEPT ![req[p].id] =
                            [@ EXCEPT !.created = IF @ = <<>> THEN <<req[p].inc>> ELSE @,
                                      !.creates = @ + 1]]
            /\ UNCHANGED local
    /\ UNCHANGED <<sessions, uuids, now, req, ops>>

----------------------------------------------------------------------------
(* SaveReview *)

BeginSaveReview(p, id, res, c, o) ==
    BeginTx(p, [op |-> "SaveReview", first |-> "hasIncident", id |-> id,
                res |-> res, comment |-> c], o)

\* the existence check of SaveReview
SaveReviewCheck(p, o) ==
    /\ pc[p] = "hasIncident" /\ req[p].op = "SaveReview"
    /\ IF o # "ok" THEN Fail(p, Wrap(o))
       ELSE IF ~hasIncident(req[p].id) THEN Fail(p, "ErrDoesNotExist")
       ELSE /\ pc' = [pc EXCEPT ![p] = "updateResolution"]
            /\ UNCHANGED <<incidents, comments, tx, local, ret>>
    /\ UNCHANGED <<sessions, uuids, now, req, ops, hist>>

\* tx.Stmt(db.updateResolutionStmt).ExecContext(ctx, res.String(), id)
SaveReviewUpdate(p, o) ==
    /\ pc[p] = "updateResolution"
    /\ IF o # "ok" THEN Fail(p, Wrap(o))
       ELSE /\ ~UpdateBlocked(p, req[p].id)
            /\ tx' = [tx EXCEPT ![p].upd =
                        <<[id |-> req[p].id, resolution |-> ResolutionString(req[p].res)]>>]
            /\ pc' = [pc EXCEPT ![p] = "saveComment"]
            /\ UNCHANGED <<incidents, comments, local, ret>>
    /\ UNCHANGED <<sessions, uuids, now, req, ops, hist>>

\* (variant: the comment row does not receive the review's resolution)
CommentRowUnstamped(cid, id, c, res) ==
    [id |-> cid, incident_id |-> id, timestamp |-> c.timestamp, author |-> c.author,
     comment |-> c.message, resolution |-> ResolutionString(RESOLUTION_UNSPECIFIED)]

\* the row saveCommentStmt writes
CommentRow(cid, id, c, res) ==
    [id |-> cid, incident_id |-> id, timestamp |-> c.timestamp, author |-> c.author,
     comment |-> c.message, resolution |-> ResolutionString(res)]

\* tx.Stmt(db.saveCommentStmt).ExecContext with a fresh uuid.New()
SaveReviewComment(p, o) ==
    /\ pc[p] = "saveComment"
    /\ uuids' = uuids + 1
    /\ IF o # "ok" THEN Fail(p, Wrap(o))
       ELSE /\ tx' = [tx EXCEPT ![p].insCom =
                        <<CommentRow(uuids + 1, req[p].id, req[p].comment, req[p].res)>>]
            /\ pc' = [pc EXCEPT ![p] = "commit"]
            /\ UNCHANGED <<incidents, comments, local, ret>>
    /\ UNCHANGED <<sessions, now, req, ops, hist>>

\* tx.Commit() of SaveReview
SaveReviewCommit(p, o) ==
    /\ pc[p] = "commit" /\ req[p].op = "SaveReview"
    /\ IF o # "ok" THEN Fail(p, Wrap(o)) /\ UNCHANGED hist
       ELSE /\ Commit(p)
            /\ ret' = [ret EXCEPT ![p] = [err |-> "nil", inc |-> <<>>]]
            /\ hist' = [hist EXCEPT ![req[p].id] =
                            [@ EXCEPT !.reviewed = TRUE,
                                      !.last = <<[res |-> req[p].res, comment |-> req[p].comment]>>]]
            /\ UNCHANGED local
    /\ UNCHANGED <<sessions, uuids, now, req, ops>>

----------------------------------------------------------------------------
(* ViewIncident *)

BeginViewIncident(p, id, o) ==
    BeginTx(p, [op |-> "ViewIncident", first |-> "viewIncident", id |-> id,
                after |-> hist[id].last], o)

\* (variant: the resolution column is not decoded)
scanIncidentUndecoded(row) ==
    [id |-> row.id, timestamp |-> row.timestamp, description |-> row.description,
     lat |-> row.lat, lon |-> row.lon,
     resolution |-> RESOLUTION_UNSPECIFIED, image |-> row.image,
     comments |-> <<>>]

\* scanIncident: a row of incidents as an incident.Incident
scanIncident(row) ==
    [id |-> row.id, timestamp |-> row.timestamp, description |-> row.description,
     lat |-> row.lat, lon |-> row.lon,
     resolution |-> ResolutionValue(row.resolution), image |-> row.image,
     comments |-> <<>>]

\* scanIncident(tx.Stmt(db.viewIncidentStmt).QueryRow(id)).  QueryRow is
\* called without ctx: when ctx is cancelled by now, the statement fails only
\* if the transaction has already been rolled back for it (ErrTxDone);
\* otherwise it runs, and the method goes on with a cancelled ctx.
\* local[p].ctx is the state of ctx as the method has met it, local[p].full
\* tells whether the loop over the comment rows reached the last row.
ViewIncidentRow(p, o) ==
    /\ pc[p] = "viewIncident"
    /\ \/ /\ o # "ok"
          /\ Fail(p, Wrap(o))
       \/ /\ o # "fault"
          /\ IF IncidentRows(req[p].id) = <<>> THEN Fail(p, "ErrDoesNotExist")
             ELSE /\ local' = [local EXCEPT ![p] =
                                  [inc |-> scanIncident(IncidentRows(req[p].id)[1]),
                                   mark |-> Len(CommentRows(req[p].id)),
                                   ctx |-> IF o = "ok" THEN "live" ELSE "canceled",
                                   full |-> TRUE]]
                  /\ pc' = [pc EXCEPT ![p] = "viewComments"]
                  /\ UNCHANGED <<incidents, comments, tx, ret>>
    /\ UNCHANGED <<sessions, uuids, now, req, ops, hist>>

\* rows.Scan of a comments row into new(incident.Comment): timestamp, author
\* and comment are kept, the id, the incident_id and the resolution column
\* are discarded, so every other field of the Comment keeps its zero value.
scanComment(row) ==
    [timestamp |-> row.timestamp, author |-> row.author, message |-> row.comment,
     resolution |-> RESOLUTION_UNSPECIFIED]

\* ByTimestamp.Less
Less(a, b) == a.timestamp < b.timestamp

Perms(n) == {f \in [1..n -> 1..n] : \A i, j \in 1..n : i # j => f[i] # f[j]}

\* (variant: the comments are returned in fetch order)
Unsorted(s) == {s}

\* sort.Sort(ByTimestamp(s)): a permutation of s in which no element is Less
\* than an earlier one; sort.Sort does not promise which, among equal keys.
SortOutcomes(s) ==
    {[k \in 1..Len(s) |-> s[f[k]]] :
        f \in {g \in Perms(Len(s)) :
                \A i, j \in 1..Len(s) : i < j => ~Less(s[g[j]], s[g[i]])}}

\* (variant: Commit does not look at ctx)
CommitIgnoresCtx(c) == FALSE

\* tx.Commit() returns the error of the ctx the transaction was begun with
\* when that ctx is cancelled, before it commits anything
CommitRefuses(c) == c = "canceled"

\* the number of rows the rows.Next() loop scans of n rows: all of them, or
\* fewer when the iteration fails or ctx is cancelled on the way; rows.Err()
\* is not looked at, so the loop just ends
RowsRead(n, o) == IF o = "ok" THEN {n} ELSE 0..n

\* QueryContext(ctx, id) of viewCommentsStmt, the rows.Next() loop over its
\* rows, then the sort
ViewIncidentComments(p, o) ==
    /\ pc[p] = "viewComments"
    /\ \/ /\ local[p].ctx = "canceled"
          /\ FailCanceled(p)
       \/ /\ local[p].ctx = "live" /\ o # "ok"
          /\ Fail(p, Wrap(o))
       \/ /\ local[p].ctx = "live"
          /\ LET rows == CommentRows(req[p].id)
             IN  \E n \in RowsRead(Len(rows), o) :
                   \E sorted \in SortOutcomes([k \in 1..n |-> scanComment(rows[k])]) :
                        /\ n = Len(rows) => o = "ok"
                        /\ local' = [local EXCEPT ![p].inc.comments = sorted,
                                                  ![p].full = (o = "ok"),
                                                  ![p].ctx = IF o = "canceled"
                                                             THEN "canceled" ELSE "live"]
          /\ pc' = [pc EXCEPT ![p] = "commit"]
          /\ UNCHANGED <<incidents, comments, tx, ret>>
    /\ UNCHANGED <<sessions, uuids, now, req, ops, hist>>

\* tx.Commit() of ViewIncident, then return inc: Commit looks at the ctx of
\* the transaction first and returns its error when it is cancelled
ViewIncidentCommit(p, o) ==
    /\ pc[p] = "commit" /\ req[p].op = "ViewIncident"
    /\ IF CommitRefuses(local[p].ctx) THEN FailCanceled(p)
       ELSE IF o # "ok" THEN Fail(p, Wrap(o))
       ELSE /\ Commit(p)
            /\ ret' = [ret EXCEPT ![p] = [err |-> "nil", inc |-> <<local[p].inc>>]]
            /\ UNCHANGED local
    /\ UNCHANGED <<sessions, uuids, now, req, ops, hist>>

----------------------------------------------------------------------------
(* SaveSession, IsValidSession *)

\* Time.Unix(): the whole seconds of a time
Unix(t) == t \div Second

\* time.Unix(sec, 0): the time at the start of a second
TimeUnix(sec) == sec * Second

\* SELECT expiry FROM sessions WHERE id=?
SessionRows(tok) == SelectSeq2(sessions, tok, "id")

\* (variant: the sessions table carries no uniqueness constraint)
NoSessionKey(tok) == FALSE

\* id TEXT PRIMARY KEY on sessions
SessionExists(tok) == \E k \in 1..Len(sessions) : sessions[k].id = tok

\* the body of SaveSession: expiry := time.Now().Add(1 * time.Hour), then one
\* INSERT of (session, expiry.Unix()) outside any transaction
SaveSessionCall(p, tok, o) ==
    /\ ops' = ops + 1
    /\ req' = [req EXCEPT ![p] = [op |-> "SaveSession", id |-> tok, at |-> now,
                                  dup |-> SessionRows(tok) # <<>>]]
    /\ pc' = [pc EXCEPT ![p] = "done"]
    /\ IF o # "ok"
       THEN /\ ret' = [ret EXCEPT ![p] = [err |-> Wrap(o), inc |-> <<>>]]
            /\ hist' = [hist EXCEPT ![tok].again = @ \/ hist[tok].expired]
            /\ UNCHANGED sessions
       ELSE IF SessionExists(tok)
       THEN /\ ret' = [ret EXCEPT ![p] = [err |-> "wrap:unique", inc |-> <<>>]]
            /\ hist' = [hist EXCEPT ![tok].again = @ \/ hist[tok].expired]
            /\ UNCHANGED sessions
       ELSE /\ ret' = [ret EXCEPT ![p] = [err |-> "nil", inc |-> <<>>]]
            /\ sessions' = Append(sessions,
                    [id |-> tok, expiry |-> Unix(now + TimeUnix(SessionTTL))])
            /\ hist' = [hist EXCEPT ![tok].savedAt = IF @ = <<>> THEN <<now>> ELSE @,
                                    ![tok].again = @ \/ hist[tok].expired]
    /\ UNCHANGED <<incidents, comments, uuids, now, tx, local>>

SaveSession(p, tok, o) == MayBegin(p) /\ SaveSessionCall(p, tok, o)

\* (variant: a session is also refused in the instant of its expiry)
ExpiredAtExpiry(expiryUnix, t) == t - TimeUnix(expiryUnix) >= 0

\* time.Since(time.Unix(expiryUnix, 0)) > 0, at time t
Expired(expiryUnix, t) == t - TimeUnix(expiryUnix) > 0

\* (variant: a token without a row is reported like an expired one)
IsValidErrMissingAsExpired(rows, k, t) ==
    IF rows = <<>> THEN "session expired"
    ELSE IF Expired(rows[k].expiry, t) THEN "session expired"
    ELSE "nil"

\* what IsValidSession returns when the query itself succeeds: row.Scan of
\* no row is sql.ErrNoRows, wrapped; else the expiry of the row scanned
IsValidErr(rows, k, t) ==
    IF rows = <<>> THEN "wrap:norows"
    ELSE IF Expired(rows[k].expiry, t) THEN "session expired"
    ELSE "nil"

\* the body of IsValidSession: one SELECT outside any transaction; QueryRow
\* scans the first row the store returns, whichever that is
IsValidSessionCall(p, tok, o) ==
    /\ ops' = ops + 1
    /\ req' = [req EXCEPT ![p] = [op |-> "IsValidSession", id |-> tok, at |-> now,
                                  seen |-> hist[tok].expired,
                                  saved |-> hist[tok].savedAt]]
    /\ pc' = [pc EXCEPT ![p] = "done"]
    /\ \E e \in IF o # "ok" THEN {Wrap(o)}
                ELSE IF SessionRows(tok) = <<>> THEN {IsValidErr(<<>>, 1, now)}
                ELSE {IsValidErr(SessionRows(tok), k, now) : k \in 1..Len(SessionRows(tok))} :
            /\ ret' = [ret EXCEPT ![p] = [err |-> e, inc |-> <<>>]]
            /\ hist' = [hist EXCEPT ![tok].expired = @ \/ e = "session expired"]
    /\ UNCHANGED <<incidents, comments, sessions, uuids, now, tx, local>>

IsValidSession(p, tok, o) == MayBegin(p) /\ IsValidSessionCall(p, tok, o)

----------------------------------------------------------------------------
(* Properties *)

Done(p, op) == pc[p] = "done" /\ req[p].op = op

StoreErrors == {"wrap:fault", "wrap:canceled"}

\* a row of incidents with its resolution column blanked
SansResolution(row) == [row EXCEPT !.resolution = ""]

\* C1: a Create issued after a Create of the same id has committed fails with
\* AlreadyExists (unless the store itself fails or the caller cancels), and the
\* store keeps exactly one incident with that id, carrying the fields the
\* first Create wrote (its resolution as long as no Review has changed it).
C1_SecondCreateFails ==
    /\ \A p \in Procs :
        (Done(p, "SaveIncident") /\ req[p].after)
            => ret[p].err \in {"ErrAlreadyExists"} \cup StoreErrors
    /\ \A id \in Ids :
        hist[id].created # <<>> =>
            /\ Len(IncidentRows(id)) = 1
            /\ SansResolution(IncidentRows(id)[1]) = SansResolution(IncidentRow(hist[id].created[1]))
            /\ ~hist[id].reviewed => IncidentRows(id)[1] = IncidentRow(hist[id].created[1])

\* C1 happens: a second Create with other field values was refused.
C1_Witness ==
    \E p \in Procs :
        /\ Done(p, "SaveIncident") /\ req[p].after
        /\ ret[p].err = "ErrAlreadyExists"
        /\ IncidentRow(req[p].inc) # IncidentRow(hist[req[p].id].created[1])

\* C2: whatever the interleaving of concurrent Creates, the incidents table
\* holds at most one row per id and at most one Create per id succeeds.
C2_UniqueId ==
    \A id \in Ids : Len(IncidentRows(id)) <= 1 /\ hist[id].creates <= 1

\* C2 happens: two Creates of one id both passed the existence check before
\* either committed; one succeeded and the other was refused at its INSERT.
C2_Witness ==
    \E p, q \in Procs :
        /\ Done(p, "SaveIncident") /\ Done(q, "SaveIncident")
        /\ req[p].id = req[q].id /\ ~req[p].after /\ ~req[q].after
        /\ ret[p].err = "nil" /\ ret[q].err = "wrap:unique"

\* C3: every Create that fails because its id is already stored returns
\* AlreadyExists, also when the primary key refuses the INSERT.
C3_DuplicateIsAlreadyExists ==
    \A p \in Procs :
        (Done(p, "SaveIncident") /\ ret[p].err \notin {"nil"} \cup StoreErrors)
            => ret[p].err = "ErrAlreadyExists"

\* the fields of a viewed incident other than resolution and comments equal
\* those of the input inc
SameFields(v, inc) ==
    /\ v.id = inc.id /\ v.timestamp = inc.timestamp
    /\ v.description = inc.description
    /\ v.lat = inc.lat /\ v.lon = inc.lon /\ v.image = inc.image

\* a View of an incident that was created and never reviewed has returned
ViewedFresh(p) ==
    /\ Done(p, "ViewIncident") /\ ret[p].err = "nil"
    /\ hist[req[p].id].created # <<>> /\ ~hist[req[p].id].reviewed

Enumerated == {RESOLUTION_UNSPECIFIED, RESOLUTION_ACCEPTED, RESOLUTION_ALERTED,
               RESOLUTION_REJECTED}

\* C4 (as claimed): View after Create returns the input's fields, no comment
\* and resolution UNSPECIFIED, whatever resolution the input carried.
C4_ViewAfterCreateUnspecified ==
    \A p \in Procs :
        ViewedFresh(p) =>
            /\ SameFields(ret[p].inc[1], hist[req[p].id].created[1])
            /\ ret[p].inc[1].comments = <<>>
            /\ ret[p].inc[1].resolution = RESOLUTION_UNSPECIFIED

\* C4 (amended): View after Create returns the input's fields, no comment and
\* the resolution the input carried; UNSPECIFIED when the input left it unset
\* or carried a value outside the enumeration.
C4_ViewAfterCreate ==
    \A p \in Procs :
        ViewedFresh(p) =>
            LET inc == hist[req[p].id].created[1]
            IN  /\ SameFields(ret[p].inc[1], inc)
                /\ ret[p].inc[1].comments = <<>>
                /\ ret[p].inc[1].resolution =
                        IF inc.resolution \in Enumerated THEN inc.resolution
                        ELSE RESOLUTION_UNSPECIFIED

\* C4 happens: an incident created with resolution ACCEPTED was viewed.
C4_Witness ==
    \E p \in Procs :
        /\ ViewedFresh(p)
        /\ hist[req[p].id].created[1].resolution = RESOLUTION_ACCEPTED
        /\ ret[p].inc[1].resolution = RESOLUTION_ACCEPTED

\* C5: the View that follows a successful Review(id, R, c) returns resolution
\* R and a comment list containing a comment with resolution R and the
\* author, message and timestamp of c.
C5_ViewAfterReview ==
    \A p \in Procs :
        (/\ Done(p, "ViewIncident") /\ ret[p].err = "nil"
         /\ req[p].after # <<>> /\ req[p].after = hist[req[p].id].last)
            => LET r == req[p].after[1]
                   cs == ret[p].inc[1].comments
               IN  /\ ret[p].inc[1].resolution = r.res
                   /\ \E k \in 1..Len(cs) :
                        /\ cs[k].resolution = r.res
                        /\ cs[k].author = r.comment.author
                        /\ cs[k].message = r.comment.message
                        /\ cs[k].timestamp = r.comment.timestamp

\* p's Review commits in this step
ReviewCommits(p) ==
    /\ pc[p] = "commit" /\ req[p].op = "SaveReview"
    /\ pc'[p] = "done" /\ ret'[p].err = "nil"

\* C6: a committing Review adds exactly one comment row, for its incident and
\* stamped with the resolution it gives the incident, in the same step as the
\* resolution update; no other step changes a resolution or adds a comment.
C6_ReviewAtomic ==
    [][/\ \A p \in Procs :
            ReviewCommits(p) =>
                /\ Len(comments') = Len(comments) + 1
                /\ SubSeq(comments', 1, Len(comments)) = comments
                /\ comments'[Len(comments')].incident_id = req[p].id
                /\ comments'[Len(comments')].resolution = ResolutionString(req[p].res)
                /\ \A k \in 1..Len(incidents') :
                        incidents'[k].resolution =
                            IF incidents'[k].id = req[p].id
                            THEN comments'[Len(comments')].resolution
                            ELSE incidents[k].resolution
       /\ (\A p \in Procs : ~ReviewCommits(p)) =>
                /\ comments' = comments
                /\ \A k \in 1..Len(incidents) : incidents'[k] = incidents[k]
      ]_vars

\* C6 happens: a Review has committed on an incident whose resolution it changed.
C6_Witness ==
    \E p \in Procs :
        /\ Done(p, "SaveReview") /\ ret[p].err = "nil"
        /\ hist[req[p].id].created[1].resolution # req[p].res
        /\ CommentRows(req[p].id) # <<>>

\* C7: a View never returns the incident row of one committed state with the
\* comments of another: the comments it returns are those that were committed
\* when it read the incident row (no comment of a Review whose resolution the
\* returned row does not show yet, no resolution of a Review without its
\* comment).
C7_ViewSnapshot ==
    \A p \in Procs :
        (Done(p, "ViewIncident") /\ ret[p].err = "nil")
            => Len(ret[p].inc[1].comments) = local[p].mark

\* C8: a Review or View whose existence check finds no incident with the id
\* returns DoesNotExist (unless the store fails or the caller cancels) in
\* that step, with no write buffered or applied: the three tables stay as
\* they are and the Review writes no comment row.
C8_MissingIncident ==
    [][\A p \in Procs :
        (/\ \/ pc[p] = "hasIncident" /\ req[p].op = "SaveReview"
            \/ pc[p] = "viewIncident"
         /\ IncidentRows(req[p].id) = <<>>
         /\ pc'[p] # pc[p])
            => /\ pc'[p] = "done"
               /\ ret'[p].err \in {"ErrDoesNotExist"} \cup StoreErrors
               /\ ret'[p].inc = <<>>
               /\ tx'[p] = NoTx
               /\ incidents' = incidents /\ comments' = comments /\ sessions' = sessions
      ]_vars

\* C8 happens: a Review and a View of an id that is not stored have both
\* returned DoesNotExist, with a session stored.
C8_Witness ==
    \E p, q \in Procs :
        /\ Done(p, "SaveReview") /\ ret[p].err = "ErrDoesNotExist"
        /\ Done(q, "ViewIncident") /\ ret[q].err = "ErrDoesNotExist"
        /\ IncidentRows(req[p].id) = <<>> /\ IncidentRows(req[q].id) = <<>>
        /\ comments = <<>> /\ sessions # <<>>

\* C9: a step in which a method returns an error changes no table, and the
\* incidents and comments tables change only in a step in which a commit
\* succeeds: what a failed Create or Review had executed is not persisted.
C9_NoPartialWrites ==
    [][/\ \A p \in Procs :
            (pc[p] # "done" /\ pc'[p] = "done" /\ ret'[p].err # "nil")
                => incidents' = incidents /\ comments' = comments
       /\ (incidents' # incidents \/ comments' # comments)
                => \E p \in Procs :
                        pc[p] = "commit" /\ pc'[p] = "done" /\ ret'[p].err = "nil"
      ]_vars

\* C9 happens: a Review failed after its resolution update and its comment
\* insert had executed (a uuid was drawn for a comment row that is not
\* stored), and the incident still has the resolution it was created with.
C9_Witness ==
    \E p \in Procs :
        /\ \A q \in Procs : Free(q)
        /\ Done(p, "SaveReview") /\ ret[p].err \in StoreErrors
        /\ uuids = 1 /\ comments = <<>>
        /\ IncidentRows(req[p].id) # <<>>
        /\ IncidentRows(req[p].id)[1].resolution # ResolutionString(req[p].res)

\* C21: a method that has returned holds no transaction: whenever a caller
\* is outside a method its transaction is closed with nothing buffered, and
\* the step in which a method returns is the step that closes it.
C21_NoOpenTx ==
    [][\A p \in Procs :
          /\ Free(p) => tx[p] = NoTx
          /\ (pc[p] # "done" /\ pc'[p] = "done") => tx'[p] = NoTx
          /\ (tx[p].open /\ ~tx'[p].open) => pc'[p] = "done"]_vars

\* C21 happens: a Create has returned AlreadyExists and a Review has failed
\* after its comment insert had executed, and no transaction is open
C21_Witness ==
    \E p, q \in Procs :
        /\ Done(p, "SaveIncident") /\ ret[p].err = "ErrAlreadyExists"
        /\ Done(q, "SaveReview") /\ ret[q].err \in StoreErrors
        /\ uuids = 1 /\ comments = <<>>
        /\ \A r \in Procs : tx[r] = NoTx

\* a View of p is past its incident read with a cancelled ctx
ViewCanceled(p) ==
    /\ pc[p] \in {"viewComments", "commit"} /\ req[p].op = "ViewIncident"
    /\ local[p].ctx = "canceled"

\* C22: a Create, Review or View that meets the cancellation of its ctx
\* returns an error and no incident, its transaction rolled back, and the
\* step changes no table; a View whose ctx was cancelled during its incident
\* read or its loop over the comment rows returns that error in its next
\* step, and a View that returns an incident has met no cancellation.
C22_CancelAborts ==
    [][\A p \in Procs :
          /\ (pc[p] # "done" /\ pc'[p] = "done" /\ ret'[p].err = "wrap:canceled")
                => /\ ret'[p].inc = <<>>
                   /\ tx'[p] = NoTx
                   /\ incidents' = incidents /\ comments' = comments
          /\ (ViewCanceled(p) /\ pc'[p] # pc[p])
                => pc'[p] = "done" /\ ret'[p].err = "wrap:canceled"
          /\ (pc'[p] = "done" /\ req'[p].op = "ViewIncident" /\ ret'[p].err = "nil")
                => local'[p].ctx = "live"]_vars

\* C22 happens: a Review was cancelled after its comment insert and left no
\* row, and a View whose ctx was cancelled while it read its incident row
\* went on to the comment read and returned the error there
C22_Witness ==
    \E p, q \in Procs :
        /\ Done(p, "SaveReview") /\ ret[p].err = "wrap:canceled"
        /\ uuids = 1 /\ comments = <<>>
        /\ Done(q, "ViewIncident") /\ ret[q].err = "wrap:canceled"
        /\ local[q] # <<>> /\ local[q].ctx = "canceled"
        /\ local[q].inc.id = req[p].id

----------------------------------------------------------------------------

Next ==
    \/ \E p \in Procs, inc \in IncidentInputs, o \in Outcomes : BeginSaveIncident(p, inc, o)
    \/ \E p \in Procs, o \in Outcomes : SaveIncidentCheck(p, o)
    \/ \E p \in Procs, o \in Outcomes : SaveIncidentInsert(p, o)
    \/ \E p \in Procs, o \in Outcomes : SaveIncidentCommit(p, o)
    \/ \E p \in Procs, id \in Ids, r \in ReviewInputs, o \in Outcomes :
          BeginSaveReview(p, id, r.res, r.comment, o)
    \/ \E p \in Procs, o \in Outcomes : SaveReviewCheck(p, o)
    \/ \E p \in Procs, o \in Outcomes : SaveReviewUpdate(p, o)
    \/ \E p \in Procs, o \in Outcomes : SaveReviewComment(p, o)
    \/ \E p \in Procs, o \in Outcomes : SaveReviewCommit(p, o)
    \/ \E p \in Procs, id \in Ids, o \in Outcomes : BeginViewIncident(p, id, o)
    \/ \E p \in Procs, o \in Outcomes : ViewIncidentRow(p, o)
    \/ \E p \in Procs, o \in Outcomes : ViewIncidentComments(p, o)
    \/ \E p \in Procs, o \in Outcomes : ViewIncidentCommit(p, o)
    \/ \E p \in Procs, tok \in Tokens, o \in Outcomes : SaveSession(p, tok, o)

Spec == Init /\ [][Next]_vars

----------------------------------------------------------------------------
(* ViewIncident over stores that already hold reviews.  The store is the one *)
(* left by creating both incidents and committing a sequence of reviews, one *)
(* after the other; callers then only view.                                  *)

ViewReviewInputs ==
    ReviewInputs \cup
    {[res |-> RESOLUTION_ALERTED,
      comment |-> [timestamp |-> 200, author |-> "a3", message |-> "m3"]]}

\* the sequences of at most n reviews, each of an id with an input
RECURSIVE ReviewSeqs(_)
ReviewSeqs(n) ==
    IF n = 0 THEN {<<>>}
    ELSE LET shorter == ReviewSeqs(n - 1)
         IN  shorter \cup
             {Append(rs, [id |-> i, res |-> r.res, comment |-> r.comment]) :
                rs \in {x \in shorter : Len(x) = n - 1}, i \in Ids, r \in ViewReviewInputs}

InitialIncident(id) ==
    CHOOSE inc \in IncidentInputs :
        inc.id = id /\ inc.resolution = RESOLUTION_UNSPECIFIED

\* the tables after SaveIncident of both ids and then SaveReview of each
\* element of rs have committed in turn
RECURSIVE StoreAfter(_)
StoreAfter(rs) ==
    IF rs = <<>>
    THEN [incidents |-> <<IncidentRow(InitialIncident("i1")), IncidentRow(InitialIncident("i2"))>>,
          comments |-> <<>>]
    ELSE LET st == StoreAfter(SubSeq(rs, 1, Len(rs) - 1))
             r == rs[Len(rs)]
         IN  [incidents |-> ApplyUpdates(st.incidents,
                                <<[id |-> r.id, resolution |-> ResolutionString(r.res)]>>),
              comments |-> Append(st.comments, CommentRow(Len(rs), r.id, r.comment, r.res))]

\* the last review of id in rs, as the history records it
LastReview(rs, id) ==
    LET ks == {k \in 1..Len(rs) : rs[k].id = id}
    IN  IF ks = {} THEN <<>>
        ELSE LET k == CHOOSE k \in ks : \A j \in ks : j <= k
             IN  <<[res |-> rs[k].res, comment |-> rs[k].comment]>>

\* the review sequences the stores of SpecView are left by: any number of
\* reviews of i1, at most one of the other incident
ViewReviewSeqs ==
    {rs \in ReviewSeqs(MaxLen) :
        \A j, k \in 1..Len(rs) : (rs[j].id # "i1" /\ rs[k].id # "i1") => j = k}

InitView ==
    \E rs \in ViewReviewSeqs :
        /\ incidents = StoreAfter(rs).incidents
        /\ comments = StoreAfter(rs).comments
        /\ sessions = <<>>
        /\ uuids = Len(rs)
        /\ now = 0
        /\ pc = [p \in Procs |-> "idle"]
        /\ req = [p \in Procs |-> NoReq]
        /\ tx = [p \in Procs |-> NoTx]
        /\ local = [p \in Procs |-> <<>>]
        /\ ret = [p \in Procs |-> NoRet]
        /\ ops = 0
        /\ hist = [i \in Ids \cup SessionTokens |->
                    IF i \in SessionTokens THEN NoSessionHist
                    ELSE [created |-> <<InitialIncident(i)>>, creates |-> 1,
                          reviewed |-> LastReview(rs, i) # <<>>, last |-> LastReview(rs, i)]]

NextView ==
    \/ \E id \in Ids, o \in Outcomes : BeginViewIncident("p1", id, o)
    \/ \E o \in Outcomes : ViewIncidentRow("p1", o)
    \/ \E o \in Outcomes : ViewIncidentComments("p1", o)
    \/ \E o \in Outcomes : ViewIncidentCommit("p1", o)

SpecView == InitView /\ [][NextView]_vars

\* the number of positions of sequence s that hold x
Count(s, x) == Cardinality({k \in 1..Len(s) : s[k] = x})

\* the comments stored for id, as ViewIncident scans them, in store order
StoredComments(id) ==
    [k \in 1..Len(CommentRows(id)) |-> scanComment(CommentRows(id)[k])]

----------------------------------------------------------------------------
(* ViewIncident over comments with equal timestamps *)

\* reviews whose comments differ in content; the first two share a timestamp
TieReviewInputs ==
    {[res |-> RESOLUTION_ACCEPTED,
      comment |-> [timestamp |-> 100, author |-> "a1", message |-> "m1"]],
     [res |-> RESOLUTION_REJECTED,
      comment |-> [timestamp |-> 100, author |-> "a2", message |-> "m2"]],
     [res |-> RESOLUTION_ALERTED,
      comment |-> [timestamp |-> 300, author |-> "a3", message |-> "m3"]]}

\* the sequences of at most n of these reviews, each of either incident
RECURSIVE TieSeqs(_)
TieSeqs(n) ==
    IF n = 0 THEN {<<>>}
    ELSE LET shorter == TieSeqs(n - 1)
         IN  shorter \cup
             {Append(rs, [id |-> i, res |-> r.res, comment |-> r.comment]) :
                rs \in {x \in shorter : Len(x) = n - 1}, i \in Ids, r \in TieReviewInputs}

InitTies ==
    \E rs \in TieSeqs(MaxLen) :
        /\ incidents = StoreAfter(rs).incidents
        /\ comments = StoreAfter(rs).comments
        /\ sessions = <<>>
        /\ uuids = Len(rs)
        /\ now = 0
        /\ pc = [p \in Procs |-> "idle"]
        /\ req = [p \in Procs |-> NoReq]
        /\ tx = [p \in Procs |-> NoTx]
        /\ local = [p \in Procs |-> <<>>]
        /\ ret = [p \in Procs |-> NoRet]
        /\ ops = 0
        /\ hist = [i \in Ids \cup SessionTokens |->
                    IF i \in SessionTokens THEN NoSessionHist
                    ELSE [created |-> <<InitialIncident(i)>>, creates |-> 1,
                          reviewed |-> LastReview(rs, i) # <<>>, last |-> LastReview(rs, i)]]

SpecTies == InitTies /\ [][NextView]_vars

\* the one ordering of s by Less that keeps elements with equal keys in the
\* order they have in s
StableSort(s) ==
    LET f == CHOOSE g \in Perms(Len(s)) :
                \A i, j \in 1..Len(s) :
                    i < j => \/ Less(s[g[i]], s[g[j]])
                             \/ ~Less(s[g[j]], s[g[i]]) /\ g[i] < g[j]
    IN  [k \in 1..Len(s) |-> s[f[k]]]

\* C11: the comments a View returns are the stored comments of the incident
\* ordered by timestamp, those with equal timestamps in the order the store
\* returned them.
C11_StableOrder ==
    \A p \in Procs :
        (Done(p, "ViewIncident") /\ ret[p].err = "nil")
            => ret[p].inc[1].comments = StableSort(StoredComments(req[p].id))

----------------------------------------------------------------------------
(* The session store under a running clock *)

\* the instants the clock visits: the start of each hour, which is the
\* start of a second, and the tick after it, which is inside a second
Times == {TimeUnix(h * SessionTTL) + d : h \in 0..MaxHours, d \in {0, 1}}

\* time passes between calls; the clock never runs backwards
Tick ==
    /\ \E t \in Times : t > now /\ now' = t
    /\ UNCHANGED <<incidents, comments, sessions, uuids, pc, req, tx, local, ret, ops, hist>>

SessionBegin(p) == Free(p) /\ ops < MaxSessionOps

NextSession ==
    \/ Tick
    \/ \E tok \in SessionTokens, o \in Outcomes :
          SessionBegin("p1") /\ SaveSessionCall("p1", tok, o)
    \/ \E tok \in SessionTokens, o \in Outcomes :
          SessionBegin("p1") /\ IsValidSessionCall("p1", tok, o)
    \/ \E inc \in IncidentInputs, o \in Outcomes : BeginSaveIncident("p1", inc, o)
    \/ \E o \in Outcomes : SaveIncidentCheck("p1", o)
    \/ \E o \in Outcomes : SaveIncidentInsert("p1", o)
    \/ \E o \in Outcomes : SaveIncidentCommit("p1", o)

SpecSession == Init /\ [][NextSession]_vars

\* an IsValidSession call of p has returned and its query did not fail
Checked(p) == Done(p, "IsValidSession") /\ ret[p].err \notin StoreErrors

\* the token of p's call was saved (at req[p].saved[1]) before the call
CheckedSaved(p) == Checked(p) /\ req[p].saved # <<>>

\* C17 as stated: the stored expiry is t0 + 1 hour, and IsValid at time now
\* succeeds iff now <= t0 + 1 hour, failing as expired otherwise.
C17_ValidUntilOneHour ==
    \A p \in Procs :
        CheckedSaved(p) =>
            LET t0 == req[p].saved[1] IN
            /\ \A k \in 1..Len(SessionRows(req[p].id)) :
                  TimeUnix(SessionRows(req[p].id)[k].expiry) = t0 + TimeUnix(SessionTTL)
            /\ ret[p].err = IF req[p].at <= t0 + TimeUnix(SessionTTL)
                            THEN "nil" ELSE "session expired"

\* C17: for a token saved at t0 the stored expiry is the whole seconds of
\* t0 + 1 hour, and IsValid at time now succeeds iff now is not later than
\* the start of that second, failing as expired otherwise.
C17_ValidUntilExpiry ==
    \A p \in Procs :
        CheckedSaved(p) =>
            LET t0 == req[p].saved[1] IN
            /\ \A k \in 1..Len(SessionRows(req[p].id)) :
                  SessionRows(req[p].id)[k].expiry = Unix(t0 + TimeUnix(SessionTTL))
            /\ ret[p].err = IF req[p].at <= TimeUnix(Unix(t0 + TimeUnix(SessionTTL)))
                            THEN "nil" ELSE "session expired"

\* IsValid has succeeded at the very instant of the stored expiry, and in
\* the same behaviour the clock has moved on
C17_Witness ==
    \E p \in Procs :
        /\ CheckedSaved(p)
        /\ req[p].at = TimeUnix(Unix(req[p].saved[1] + TimeUnix(SessionTTL)))
        /\ ret[p].err = "nil"

\* C18: no step changes or removes a stored session row, and an IsValid of
\* a token that has once failed as expired never succeeds.
C18_ExpiredForever ==
    [][/\ Len(sessions') >= Len(sessions)
       /\ \A k \in 1..Len(sessions) : sessions'[k] = sessions[k]
       /\ \A p \in Procs :
             (pc'[p] = "done" /\ req'[p] # req[p] /\ req'[p].op = "IsValidSession"
                 /\ req'[p].seen)
                 => ret'[p].err # "nil"]_vars

\* a token was found expired, saved again and then checked again
C18_Witness ==
    \E p \in Procs :
        /\ Done(p, "IsValidSession") /\ req[p].seen
        /\ hist[req[p].id].again
        /\ ret[p].err = "session expired"

\* a SaveSession call of p has returned and its statement did not fail for
\* a reason of the store or the context
Saved(p) == Done(p, "SaveSession") /\ ret[p].err \notin StoreErrors

\* C19 as stated: Save of a token that is already stored succeeds and the
\* sessions relation then holds two rows with that id.
C19_ResaveAddsRow ==
    \A p \in Procs :
        (Saved(p) /\ req[p].dup) =>
            /\ ret[p].err = "nil"
            /\ Len(SessionRows(req[p].id)) = 2

\* C19: Save makes no existence check of its own; a Save of a token that is
\* already stored is refused by the primary key of sessions with a wrapped
\* store error, and the relation keeps its one row for the token with the
\* expiry of the first Save.
C19_ResaveRefused ==
    /\ \A tok \in SessionTokens : Len(SessionRows(tok)) <= 1
    /\ \A p \in Procs :
        (Saved(p) /\ req[p].dup) =>
            /\ ret[p].err = "wrap:unique"
            /\ SessionRows(req[p].id) =
                  <<[id |-> req[p].id,
                     expiry |-> Unix(hist[req[p].id].savedAt[1] + TimeUnix(SessionTTL))]>>

\* a second Save of a token, later than the first, has been refused
C19_Witness ==
    \E p \in Procs :
        /\ Saved(p) /\ req[p].dup
        /\ req[p].at > hist[req[p].id].savedAt[1]

\* C20: IsValid of a token that was never saved fails, and when its query
\* succeeds the error is the wrapped no-rows error, never "session expired";
\* "session expired" is returned only for a stored token.
C20_MissingIsNotExpired ==
    \A p \in Procs :
        Done(p, "IsValidSession") =>
            /\ req[p].saved = <<>> => ret[p].err \notin {"nil", "session expired"}
            /\ (req[p].saved = <<>> /\ ret[p].err \notin StoreErrors)
                  => ret[p].err = "wrap:norows"
            /\ ret[p].err = "session expired" => req[p].saved # <<>>
            /\ "wrap:norows" # "session expired"

\* IsValid of a never-saved token has returned the no-rows error while
\* another token is stored
C20_Witness ==
    \E p \in Procs :
        /\ Done(p, "IsValidSession") /\ req[p].saved = <<>>
        /\ ret[p].err = "wrap:norows"
        /\ sessions # <<>>

----------------------------------------------------------------------------
(* The list queries over a stored incidents table *)

\* where the stored incidents lie: the middle of the box (0,0)-(10,10), the
\* middle of each of its edges, and three places to the north of it
Places ==
    {[lat |-> 5, lon |-> 5], [lat |-> 0, lon |-> 5], [lat |-> 10, lon |-> 5],
     [lat |-> 5, lon |-> 0], [lat |-> 5, lon |-> 10],
     [lat |-> 14, lon |-> 5], [lat |-> 15, lon |-> 5], [lat |-> 16, lon |-> 5]}

\* the resolutions an incident was created with, one outside the enumeration
StoredResolutions ==
    {RESOLUTION_UNSPECIFIED, RESOLUTION_ACCEPTED, RESOLUTION_ALERTED,
     RESOLUTION_REJECTED, 4}

\* the incidents a SaveIncident may have stored under id: every resolution
\* and both timestamps in the middle of the box, the later timestamp and
\* ACCEPTED at every place, and ALERTED on the south edge and to the north
StoredInputs(id) ==
    {x \in {[id |-> id, timestamp |-> ts, description |-> "d1", lat |-> pl.lat,
             lon |-> pl.lon, resolution |-> r, image |-> "img1"] :
                ts \in {100, 200}, pl \in Places, r \in StoredResolutions} :
        \/ x.lat = 5 /\ x.lon = 5
        \/ x.timestamp = 200 /\ x.resolution = RESOLUTION_ACCEPTED
        \/ x.timestamp = 200 /\ x.resolution = RESOLUTION_ALERTED /\ x.lat \in {0, 14}}

\* the arguments of the list queries
Centers == {[lat |-> 5, lon |-> 5]}
Radii == {5, 10}
Sinces == {TimeUnix(100), TimeUnix(100) + 1}
Regions ==
    {[North |-> 1000, South |-> 0, West |-> 0, East |-> 1000],
     [North |-> 1500, South |-> 500, West |-> 500, East |-> 1500]}

\* the store after SaveIncident of some of the ids has committed, i1 first
InitQuery ==
    \E stored \in SUBSET Ids :
      \E f \in [stored -> UNION {StoredInputs(i) : i \in Ids}] :
        /\ \A i \in stored : f[i].id = i
        /\ incidents = (IF "i1" \in stored THEN <<IncidentRow(f["i1"])>> ELSE <<>>)
                        \o (IF "i2" \in stored THEN <<IncidentRow(f["i2"])>> ELSE <<>>)
        /\ comments = <<>>
        /\ sessions = <<>>
        /\ uuids = 0
        /\ now = 0
        /\ pc = [p \in Procs |-> "idle"]
        /\ req = [p \in Procs |-> NoReq]
        /\ tx = [p \in Procs |-> NoTx]
        /\ local = [p \in Procs |-> <<>>]
        /\ ret = [p \in Procs |-> NoRet]
        /\ ops = 0
        /\ hist = [i \in Ids \cup SessionTokens |->
                    IF i \in SessionTokens THEN NoSessionHist
                    ELSE IF i \in stored
                    THEN [created |-> <<f[i]>>, creates |-> 1, reviewed |-> FALSE,
                          last |-> <<>>]
                    ELSE NoHist]

\* (variant: the query has no WHERE clause)
incidentsUnfilteredQuery(resolution) == incidents

\* SELECT * FROM incidents WHERE resolution=?
incidentsWithoutReviewQuery(resolution) ==
    LET Match(row) == row.resolution = resolution
    IN  SelectSeq(incidents, Match)

\* SELECT * FROM incidents WHERE resolution=ACCEPTED OR resolution=ALERTED
incidentsInRadiusQuery ==
    LET Match(row) ==
            \/ row.resolution = ResolutionString(RESOLUTION_ACCEPTED)
            \/ row.resolution = ResolutionString(RESOLUTION_ALERTED)
    IN  SelectSeq(incidents, Match)

\* the distance of two places, taken in the plane; the places and centers
\* above lie on a common line, so that the root is a whole number
distance(latA, lonA, latB, lonB) ==
    LET sq == (latA - latB) * (latA - latB) + (lonA - lonB) * (lonA - lonB)
    IN  CHOOSE d \in 0..sq : d * d = sq

\* (variant: an incident on the circle is deleted as well)
OutsideOrOnRadius(center, i, radius) ==
    distance(center.lat, center.lon, i.lat, i.lon) >= radius

\* the predicate of slices.DeleteFunc in IncidentsInRadius
OutsideRadius(center, i, radius) ==
    distance(center.lat, center.lon, i.lat, i.lon) > radius

\* (variant: the bounds of the region are passed as they are)
NotDescaled(x) == x

\* region.North/100 and the like
Descale(x) == x \div 100

\* (variant: the lower latitude bound is inclusive)
incidentsInRegionQuerySouthInclusive(since, north, south, west, east) ==
    LET Match(row) ==
            /\ \/ row.resolution = ResolutionString(RESOLUTION_ACCEPTED)
               \/ row.resolution = ResolutionString(RESOLUTION_ALERTED)
            /\ row.timestamp > since
            /\ row.lat < north /\ row.lat >= south
            /\ row.lon > west /\ row.lon < east
    IN  SelectSeq(incidents, Match)

\* SELECT * FROM incidents WHERE (resolution=ACCEPTED OR resolution=ALERTED)
\* AND timestamp > ? AND lat < ? AND lat > ? AND lon > ? AND lon < ?
incidentsInRegionQuery(since, north, south, west, east) ==
    LET Match(row) ==
            /\ \/ row.resolution = ResolutionString(RESOLUTION_ACCEPTED)
               \/ row.resolution = ResolutionString(RESOLUTION_ALERTED)
            /\ row.timestamp > since
            /\ row.lat < north /\ row.lat > south
            /\ row.lon > west /\ row.lon < east
    IN  SelectSeq(incidents, Match)

\* (variant: the alerting query keeps the resolution filter of the region query)
alertingIncidentsQueryAccepted(since, north, south, west, east) ==
    incidentsInRegionQuery(since, north, south, west, east)

\* SELECT * FROM incidents WHERE resolution=ALERTED
\* AND timestamp > ? AND lat < ? AND lat > ? AND lon > ? AND lon < ?
alertingIncidentsQuery(since, north, south, west, east) ==
    LET Match(row) ==
            /\ row.resolution = ResolutionString(RESOLUTION_ALERTED)
            /\ row.timestamp > since
            /\ row.lat < north /\ row.lat > south
            /\ row.lon > west /\ row.lon < east
    IN  SelectSeq(incidents, Match)

\* the for rows.Next() loop: scanIncident of each row, appended in turn
ScanAll(rows) == [k \in 1..Len(rows) |-> scanIncident(rows[k])]

\* What a list method returns for the rows its query selects.  QueryContext
\* may fail, which is returned wrapped.  rows.Next() may fail after any
\* number of rows; the methods do not look at rows.Err(), so the incidents
\* scanned until then are returned with a nil error.  full tells whether the
\* loop reached the last row.
ListOutcomes(rows, o) ==
    IF o = "ok" THEN {[err |-> "nil", inc |-> ScanAll(rows), full |-> TRUE]}
    ELSE {[err |-> Wrap(o), inc |-> <<>>, full |-> FALSE]} \cup
         {[err |-> "nil", inc |-> ScanAll(SubSeq(rows, 1, k)), full |-> FALSE] :
            k \in 0..(Len(rows) - 1)}

\* a list method returns: none of them opens a transaction or writes
ListReturn(p, r, out) ==
    /\ MayBegin(p)
    /\ ops' = ops + 1
    /\ req' = [req EXCEPT ![p] = r @@ [full |-> out.full]]
    /\ ret' = [ret EXCEPT ![p] = [err |-> out.err, inc |-> out.inc]]
    /\ pc' = [pc EXCEPT ![p] = "done"]
    /\ UNCHANGED <<incidents, comments, sessions, uuids, now, tx, local, hist>>

IncidentsWithoutReview(p, o) ==
    \E out \in ListOutcomes(
                 incidentsWithoutReviewQuery(ResolutionString(RESOLUTION_UNSPECIFIED)), o) :
        ListReturn(p, [op |-> "IncidentsWithoutReview"], out)

IncidentsInRadius(p, center, radius, o) ==
    \E out \in ListOutcomes(incidentsInRadiusQuery, o) :
        LET Keep(i) == ~OutsideRadius(center, i, radius)
        IN  ListReturn(p, [op |-> "IncidentsInRadius", center |-> center, radius |-> radius],
                       [out EXCEPT !.inc = SelectSeq(out.inc, Keep)])

IncidentsInRegion(p, since, region, o) ==
    \E out \in ListOutcomes(
                 incidentsInRegionQuery(Unix(since), Descale(region.North),
                     Descale(region.South), Descale(region.West), Descale(region.East)), o) :
        ListReturn(p, [op |-> "IncidentsInRegion", since |-> since, region |-> region], out)

AlertingIncidents(p, since, region, o) ==
    \E out \in ListOutcomes(
                 alertingIncidentsQuery(Unix(since), Descale(region.North),
                     Descale(region.South), Descale(region.West), Descale(region.East)), o) :
        ListReturn(p, [op |-> "AlertingIncidents", since |-> since, region |-> region], out)

NextQuery ==
    \/ \E o \in Outcomes : IncidentsWithoutReview("p1", o)
    \/ \E c \in Centers, r \in Radii, o \in Outcomes : IncidentsInRadius("p1", c, r, o)
    \/ \E t \in Sinces, g \in Regions, o \in Outcomes : IncidentsInRegion("p1", t, g, o)
    \/ \E t \in Sinces, g \in Regions, o \in Outcomes : AlertingIncidents("p1", t, g, o)

SpecQuery == InitQuery /\ [][NextQuery]_vars

\* the list method op of p has returned a list
Listed(p, op) == Done(p, op) /\ ret[p].err = "nil"

\* ... and its loop over the rows reached the last row
ListedAll(p, op) == Listed(p, op) /\ req[p].full

\* the stored incidents, as scanIncident reads them, that satisfy Cond
StoredWhere(Cond(_)) == ScanAll(SelectSeq(incidents, Cond))

InBox(p, row) ==
    /\ row.lat * 100 < req[p].region.North /\ row.lat * 100 > req[p].region.South
    /\ row.lon * 100 > req[p].region.West /\ row.lon * 100 < req[p].region.East

C15_EdgesIncluded ==
    \A p \in Procs :
        ListedAll(p, "IncidentsInRegion") =>
            LET Match(row) ==
                    /\ row.resolution \in {"RESOLUTION_ACCEPTED", "RESOLUTION_ALERTED"}
                    /\ TimeUnix(row.timestamp) > req[p].since
                    /\ row.lat * 100 < req[p].region.North
                    /\ row.lat * 100 >= req[p].region.South
                    /\ row.lon * 100 >= req[p].region.West
                    /\ row.lon * 100 <= req[p].region.East
            IN  ret[p].inc = StoredWhere(Match)

\* C15: all four bounds of the box and since are strict: no incident
\* IncidentsInRegion returns lies on an edge of the descaled box or has the
\* timestamp since, and a stored incident on an edge is not returned.
C15_EdgesExcluded ==
    \A p \in Procs :
        Listed(p, "IncidentsInRegion") =>
            /\ \A k \in 1..Len(ret[p].inc) :
                  /\ ret[p].inc[k].lat * 100 \notin {req[p].region.North, req[p].region.South}
                  /\ ret[p].inc[k].lon * 100 \notin {req[p].region.West, req[p].region.East}
                  /\ TimeUnix(ret[p].inc[k].timestamp) > req[p].since
            /\ \A j \in 1..Len(incidents) :
                  (\/ incidents[j].lat * 100 \in {req[p].region.North, req[p].region.South}
                   \/ incidents[j].lon * 100 \in {req[p].region.West, req[p].region.East})
                      => \A k \in 1..Len(ret[p].inc) : ret[p].inc[k].id # incidents[j].id

\* ACCEPTED incidents on the south edge (lat 0) and on the east edge (lon 10)
\* of the box 1000/0/0/1000, later than since, are stored and none was
\* returned
C15_Witness ==
    \E p \in Procs :
        /\ ListedAll(p, "IncidentsInRegion")
        /\ req[p].region = [North |-> 1000, South |-> 0, West |-> 0, East |-> 1000]
        /\ Len(incidents) = 2
        /\ incidents[1].lat = 0 /\ incidents[2].lon = 10
        /\ \A j \in 1..2 : /\ incidents[j].resolution = "RESOLUTION_ACCEPTED"
                           /\ TimeUnix(incidents[j].timestamp) > req[p].since
        /\ ret[p].inc = <<>>

\* what IncidentsInRegion returns for since and region when nothing fails
InRegionResult(since, region) ==
    ScanAll(incidentsInRegionQuery(Unix(since), Descale(region.North),
                Descale(region.South), Descale(region.West), Descale(region.East)))

----------------------------------------------------------------------------
(* The life of an incident: one caller, every resolution *)

\* the incidents the caller creates: i1 with every resolution, the other
\* incident ACCEPTED
LifeInputs ==
    {x \in UNION {StoredInputs(i) : i \in Ids} :
        /\ x.lat = 5 /\ x.lon = 5 /\ x.timestamp = 200
        /\ x.id = "i1" \/ x.resolution = RESOLUTION_ACCEPTED}

\* the store is empty, or a SaveIncident of the other incident has committed
InitLife ==
    \E first \in {<<>>} \cup {<<x>> : x \in {y \in LifeInputs : y.id # "i1"}} :
        /\ incidents = [k \in 1..Len(first) |-> IncidentRow(first[k])]
        /\ comments = <<>>
        /\ sessions = <<>>
        /\ uuids = 0
        /\ now = 0
        /\ pc = [p \in Procs |-> "idle"]
        /\ req = [p \in Procs |-> NoReq]
        /\ tx = [p \in Procs |-> NoTx]
        /\ local = [p \in Procs |-> <<>>]
        /\ ret = [p \in Procs |-> NoRet]
        /\ ops = 0
        /\ hist = [i \in Ids \cup SessionTokens |->
                    IF i \in SessionTokens THEN NoSessionHist
                    ELSE IF first # <<>> /\ first[1].id = i
                    THEN [created |-> first, creates |-> 1, reviewed |-> FALSE,
                          last |-> <<>>]
                    ELSE NoHist]

\* the reviews the caller submits: every resolution of the enumeration
LifeReviewInputs ==
    {[res |-> r, comment |-> [timestamp |-> 300, author |-> "a1", message |-> "m1"]] :
        r \in Enumerated}

\* between two calls the clock moves on to the last of its instants, past
\* the expiry of every session
LongTick == Free("p1") /\ Tick /\ \A t \in Times : t <= now'

NextLife ==
    \/ \E inc \in LifeInputs, o \in Outcomes : BeginSaveIncident("p1", inc, o)
    \/ \E o \in Outcomes : SaveIncidentCheck("p1", o)
    \/ \E o \in Outcomes : SaveIncidentInsert("p1", o)
    \/ \E o \in Outcomes : SaveIncidentCommit("p1", o)
    \/ \E id \in Ids, r \in LifeReviewInputs, o \in Outcomes :
          BeginSaveReview("p1", id, r.res, r.comment, o)
    \/ \E o \in Outcomes : SaveReviewCheck("p1", o)
    \/ \E o \in Outcomes : SaveReviewUpdate("p1", o)
    \/ \E o \in Outcomes : SaveReviewComment("p1", o)
    \/ \E o \in Outcomes : SaveReviewCommit("p1", o)
    \/ \E id \in Ids, o \in Outcomes : BeginViewIncident("p1", id, o)
    \/ \E o \in Outcomes : ViewIncidentRow("p1", o)
    \/ \E o \in Outcomes : ViewIncidentComments("p1", o)
    \/ \E o \in Outcomes : ViewIncidentCommit("p1", o)
    \/ \E o \in Outcomes : IncidentsWithoutReview("p1", o)
    \/ \E c \in Centers, o \in Outcomes : IncidentsInRadius("p1", c, 10, o)
    \/ \E tok \in Tokens, o \in Outcomes : SaveSession("p1", tok, o)
    \/ LongTick

SpecLife == InitLife /\ [][NextLife]_vars

\* the stored resolution of incident id ("" when it is not stored)
StoredResolution(tbl, id) ==
    LET rows == SelectSeq2(tbl, id, "id")
    IN  IF rows = <<>> THEN "" ELSE rows[1].resolution

\* C23: the stored resolution of a stored incident changes only in the step
\* that commits a Review of its id, and a Review of a stored incident to
\* ACCEPTED, ALERTED or REJECTED that meets no store failure succeeds and
\* leaves the target stored, whatever the resolution was.
C23_OnlyReviewChangesResolution ==
    [][/\ \A id \in Ids :
            (/\ StoredResolution(incidents, id) # ""
             /\ StoredResolution(incidents', id) # StoredResolution(incidents, id))
                => \E p \in Procs : ReviewCommits(p) /\ req[p].id = id
       /\ \A p \in Procs :
            (/\ pc[p] # "done" /\ pc'[p] = "done" /\ req[p].op = "SaveReview"
             /\ StoredResolution(incidents, req[p].id) # ""
             /\ req[p].res \in {RESOLUTION_ACCEPTED, RESOLUTION_ALERTED, RESOLUTION_REJECTED}
             /\ ret'[p].err \notin StoreErrors)
                => /\ ret'[p].err = "nil"
                   /\ StoredResolution(incidents', req[p].id) = ResolutionString(req[p].res)
      ]_vars

\* C23 happens: an incident created ALERTED was reviewed to REJECTED and then
\* back to ALERTED, and time has passed
C23_Witness ==
    \E p \in Procs :
        /\ Done(p, "SaveReview") /\ ret[p].err = "nil"
        /\ req[p].res = RESOLUTION_ALERTED
        /\ hist[req[p].id].created[1].resolution = RESOLUTION_ALERTED
        /\ Len(CommentRows(req[p].id)) = 2
        /\ CommentRows(req[p].id)[1].resolution = "RESOLUTION_REJECTED"
        /\ now > 0

\* C24: no step deletes a stored incident or changes its id, timestamp,
\* description, coordinates or image; no step deletes or changes a stored
\* comment, its resolution included; and a committing Review changes no
\* incident other than the one with its id.
C24_Frame ==
    [][/\ Len(incidents') >= Len(incidents)
       /\ \A k \in 1..Len(incidents) :
            SansResolution(incidents'[k]) = SansResolution(incidents[k])
       /\ Len(comments') >= Len(comments)
       /\ \A k \in 1..Len(comments) : comments'[k] = comments[k]
       /\ \A p \in Procs :
            ReviewCommits(p) =>
                \A k \in 1..Len(incidents) :
                    incidents[k].id # req[p].id => incidents'[k] = incidents[k]
      ]_vars

\* C24 happens: after two Reviews of i1 its first comment still shows the
\* resolution of the first Review, which the incident no longer has, and the
\* other incident is stored as it was created
C24_Witness ==
    /\ Len(incidents) = 2 /\ Len(CommentRows("i1")) = 2
    /\ CommentRows("i1")[1].resolution # StoredResolution(incidents, "i1")
    /\ CommentRows("i1")[2].resolution = StoredResolution(incidents, "i1")
    /\ incidents[1] = IncidentRow(hist["i2"].created[1])
    /\ SansResolution(incidents[2]) = SansResolution(IncidentRow(hist["i1"].created[1]))

\* the resolution last written to an incident by a committed Create or Review
Written(id) ==
    IF hist[id].last # <<>> THEN hist[id].last[1].res
    ELSE hist[id].created[1].resolution

\* the enumerated names of the four resolutions
CanonicalName ==
    [r \in Enumerated |->
        CASE r = RESOLUTION_UNSPECIFIED -> "RESOLUTION_UNSPECIFIED"
          [] r = RESOLUTION_ACCEPTED -> "RESOLUTION_ACCEPTED"
          [] r = RESOLUTION_ALERTED -> "RESOLUTION_ALERTED"
          [] r = RESOLUTION_REJECTED -> "RESOLUTION_REJECTED"]

\* C25: an incident whose last committed write (Create or Review) carried one
\* of the four resolutions is stored with that resolution's enumerated name,
\* and a View or a list query that returns the incident returns that
\* resolution.
C25_RoundTrip ==
    /\ \A id \in Ids :
        (IncidentRows(id) # <<>> /\ Written(id) \in Enumerated) =>
            StoredResolution(incidents, id) = CanonicalName[Written(id)]
    /\ \A p \in Procs :
        (/\ Done(p, "ViewIncident") /\ ret[p].err = "nil"
         /\ Written(req[p].id) \in Enumerated) =>
            ret[p].inc[1].resolution = Written(req[p].id)
    /\ \A p \in Procs :
        (\E op \in {"IncidentsWithoutReview", "IncidentsInRadius"} : Listed(p, op)) =>
            \A k \in 1..Len(ret[p].inc) :
                Written(ret[p].inc[k].id) \in Enumerated =>
                    ret[p].inc[k].resolution = Written(ret[p].inc[k].id)

\* C25 happens: a list query has returned an incident with the resolution its
\* Create wrote and another with the resolution a Review wrote over a
\* different one
C25_Witness ==
    \E p \in Procs :
        /\ Listed(p, "IncidentsInRadius") /\ Len(ret[p].inc) = 2
        /\ ret[p].inc[1].id = "i2" /\ ~hist["i2"].reviewed
        /\ ret[p].inc[1].resolution = RESOLUTION_ACCEPTED
        /\ ret[p].inc[2].id = "i1" /\ hist["i1"].reviewed
        /\ hist["i1"].created[1].resolution = RESOLUTION_REJECTED
        /\ ret[p].inc[2].resolution = RESOLUTION_ALERTED
        /\ StoredResolution(incidents, "i1") = "RESOLUTION_ALERTED"

\* C26: in every state, with Creates and Reviews running side by side, every
\* stored comment's incident_id is the id of a stored incident, and so is
\* that of every comment a transaction in progress has written.
C26_NoOrphanComment ==
    /\ \A k \in 1..Len(comments) : IncidentRows(comments[k].incident_id) # <<>>
    /\ \A p \in Procs :
        \A k \in 1..Len(tx[p].insCom) :
            IncidentRows(tx[p].insCom[k].incident_id) # <<>>

\* C26 happens: a Review was refused while its incident was not stored (not
\* yet created, or its Create not yet committed), the Create then committed,
\* and a later Review stored a comment on the incident
C26_Witness ==
    \E p \in Procs :
        /\ Done(p, "SaveReview") /\ ret[p].err = "ErrDoesNotExist"
        /\ IncidentRows(req[p].id) # <<>>
        /\ CommentRows(req[p].id) # <<>>

\* C27: in every committed state, with Reviews of one incident running side by
\* side, an incident that has a comment has the resolution recorded in its
\* most recently committed comment.
C27_LatestCommentAgrees ==
    \A id \in Ids :
        CommentRows(id) # <<>> =>
            StoredResolution(incidents, id) =
                CommentRows(id)[Len(CommentRows(id))].resolution

\* C27 happens: both callers have reviewed one incident to different
\* resolutions, the second beginning while the first was at work, and the
\* incident has the resolution of the later comment and not of the earlier
C27_Witness ==
    /\ \A p \in Procs :
        /\ Done(p, "SaveReview") /\ ret[p].err = "nil" /\ req[p].id = "i1"
    /\ req["p1"].res # req["p2"].res
    /\ Len(CommentRows("i1")) = 2
    /\ CommentRows("i1")[1].resolution # StoredResolution(incidents, "i1")
    /\ CommentRows("i1")[2].resolution = StoredResolution(incidents, "i1")

\* C28 (as claimed): in every state an incident stored with resolution
\* UNSPECIFIED has no comment, and every incident IncidentsWithoutReview
\* returns has never been reviewed.
C28_UnspecifiedHasNoComment ==
    /\ \A id \in Ids :
        StoredResolution(incidents, id) = ResolutionString(RESOLUTION_UNSPECIFIED) =>
            CommentRows(id) = <<>>
    /\ \A p \in Procs :
        Listed(p, "IncidentsWithoutReview") =>
            \A k \in 1..Len(ret[p].inc) : ~hist[ret[p].inc[k].id].reviewed

----------------------------------------------------------------------------
(* The auth front handler (package auth) over the session store.  A cookie
   value is a sequence of words, the blank " " being a word of its own; a
   request's cookie is <<>> when the request has none, else <<value>>. *)

\* "Bearer " + token, the value callback gives the Authorization cookie
BearerValue(tok) == <<"Bearer", " ">> \o (IF tok = "" THEN <<>> ELSE <<tok>>)

\* the access tokens the code exchange can decode: a missing access_token
\* field decodes to the empty string
AccessTokens == {""} \cup SessionTokens

\* the Authorization cookies requests carry: none, well-formed ones, and
\* values with one part, three parts, or another scheme
Cookies ==
    {<<>>} \cup {<<BearerValue(tok)>> : tok \in AccessTokens} \cup
    {<< <<>> >>, << <<"Bearer">> >>, << <<"t1">> >>, << <<"Bearer", "t1">> >>,
     << <<"Basic", " ", "t1">> >>, << <<"Bearer", " ", "t1", " ", "t2">> >>,
     << <<"Bearer", " ", " ", "t1">> >>}

\* strings.Split(value, " "): the parts between the blanks
RECURSIVE Split(_)
Split(v) ==
    IF \A k \in 1..Len(v) : v[k] # " " THEN <<v>>
    ELSE LET k == CHOOSE k \in 1..Len(v) :
                    v[k] = " " /\ \A j \in 1..(k - 1) : v[j] # " "
         IN  <<SubSeq(v, 1, k - 1)>> \o Split(SubSeq(v, k + 1, Len(v)))

\* the string of a part of at most one word
Text(part) == IF part = <<>> THEN "" ELSE part[1]

\* what db.IsValidSession(session) can return
IsValidSessionErrs(tok, o) ==
    IF o # "ok" THEN {Wrap(o)}
    ELSE IF SessionRows(tok) = <<>> THEN {IsValidErr(<<>>, 1, now)}
    ELSE {IsValidErr(SessionRows(tok), k, now) : k \in 1..Len(SessionRows(tok))}

\* what db.SaveSession(session) returns
SaveSessionErr(tok, o) ==
    IF o # "ok" THEN Wrap(o)
    ELSE IF SessionExists(tok) THEN "wrap:unique"
    ELSE "nil"

NotAuthenticated(err) == [ok |-> FALSE, err |-> err, session |-> <<>>, db |-> "none"]

\* (variant: a failed session check does not stop the request)
authenticatedUnchecked(cookie, o) ==
    IF cookie = <<>> THEN {NotAuthenticated("nil")}
    ELSE LET bearerToken == Split(cookie[1])
         IN  IF Len(bearerToken) # 2 THEN {NotAuthenticated("ErrBadFormat")}
             ELSE IF bearerToken[1] # <<"Bearer">> THEN {NotAuthenticated("ErrBadFormat")}
             ELSE {[ok |-> TRUE, err |-> "nil",
                    session |-> <<Text(bearerToken[2])>>, db |-> e] :
                      e \in IsValidSessionErrs(Text(bearerToken[2]), o)}

\* Auth.authenticated: the results it can give for a request's cookie, with
\* the session it asked the store about and the store's answer
authenticated(cookie, o) ==
    IF cookie = <<>> THEN {NotAuthenticated("nil")}
    ELSE LET bearerToken == Split(cookie[1])
         IN  IF Len(bearerToken) # 2 THEN {NotAuthenticated("ErrBadFormat")}
             ELSE IF bearerToken[1] # <<"Bearer">> THEN {NotAuthenticated("ErrBadFormat")}
             ELSE {[ok |-> e = "nil", err |-> "nil",
                    session |-> <<Text(bearerToken[2])>>, db |-> e] :
                      e \in IsValidSessionErrs(Text(bearerToken[2]), o)}

\* the responses of the two handlers
HttpError(status) ==
    [status |-> status, location |-> "", cookie |-> <<>>, forwarded |-> FALSE]

Redirect(url, cookie) ==
    [status |-> "StatusTemporaryRedirect", location |-> url, cookie |-> cookie,
     forwarded |-> FALSE]

\* a.handler.ServeHTTP(w, r): the response is the protected handler's
Forwarded == [status |-> "handler", location |-> "", cookie |-> <<>>, forwarded |-> TRUE]

AuthBegin(p) == Free(p) /\ ops < MaxSessionOps

\* Auth.index for a request with the given cookie
index(p, cookie, o) ==
    /\ AuthBegin(p)
    /\ ops' = ops + 1
    /\ pc' = [pc EXCEPT ![p] = "done"]
    /\ \E a \in authenticated(cookie, o) :
        /\ req' = [req EXCEPT ![p] = [op |-> "index", cookie |-> cookie,
                                      session |-> a.session, at |-> now]]
        /\ ret' = [ret EXCEPT ![p] = [err |-> a.db, inc |-> <<>>]]
        /\ local' = [local EXCEPT ![p] =
                        IF a.err # "nil" \/ ~a.ok
                        THEN IF a.err # "nil" THEN HttpError("StatusUnauthorized")
                             ELSE Redirect("callbackURL", <<>>)
                        ELSE Forwarded]
        /\ hist' = IF a.session # <<>> /\ a.session[1] \in SessionTokens
                   THEN [hist EXCEPT ![a.session[1]].expired =
                                        @ \/ a.db = "session expired"]
                   ELSE hist
    /\ UNCHANGED <<incidents, comments, sessions, uuids, now, tx>>

\* the query codes of callback requests
Codes == {"", "c1"}

\* how the exchange of the code for an access token can end: client.Do
\* fails, the body does not decode, or it decodes to an access token
Exchanges ==
    {[kind |-> k, token |-> ""] : k \in {"doError", "decodeError"}} \cup
    {[kind |-> "decoded", token |-> t] : t \in AccessTokens}

\* Auth.callback for a request with the given code
callback(p, code, gh, o) ==
    /\ AuthBegin(p)
    /\ ops' = ops + 1
    /\ pc' = [pc EXCEPT ![p] = "done"]
    /\ LET saves == code # "" /\ gh.kind = "decoded"
           e == IF saves THEN SaveSessionErr(gh.token, o) ELSE "none"
       IN  /\ req' = [req EXCEPT ![p] =
                        [op |-> "callback", code |-> code,
                         session |-> IF saves THEN <<gh.token>> ELSE <<>>,
                         at |-> now]]
           /\ ret' = [ret EXCEPT ![p] = [err |-> e, inc |-> <<>>]]
           /\ local' = [local EXCEPT ![p] =
                            IF code = "" THEN HttpError("StatusBadRequest")
                            ELSE IF ~saves \/ e # "nil" THEN HttpError("StatusUnauthorized")
                            ELSE Redirect("prefix", <<BearerValue(gh.token)>>)]
           /\ sessions' = IF e = "nil"
                          THEN Append(sessions,
                                  [id |-> gh.token,
                                   expiry |-> Unix(now + TimeUnix(SessionTTL))])
                          ELSE sessions
           /\ hist' = IF e = "nil" /\ gh.token \in SessionTokens
                      THEN [hist EXCEPT ![gh.token].savedAt =
                                            IF @ = <<>> THEN <<now>> ELSE @]
                      ELSE hist
    /\ UNCHANGED <<incidents, comments, uuids, now, tx>>

NextAuth ==
    \/ Tick
    \/ \E cookie \in Cookies, o \in Outcomes : index("p1", cookie, o)
    \/ \E code \in Codes, gh \in Exchanges, o \in Outcomes : callback("p1", code, gh, o)

SpecAuth == Init /\ [][NextAuth]_vars

\* the cookie of a request is "Bearer " followed by the token
CarriesBearer(cookie, tok) == cookie # <<>> /\ cookie[1] = BearerValue(tok)

\* C29: index forwards a request only if its cookie is "Bearer <token>" and
\* IsValidSession(token) returned nil for this request; a request without
\* cookie, with an unknown token or with an expired session is redirected to
\* the sign-in URL; a cookie of another form is answered Unauthorized without
\* a session check; and callback sets the cookie, to "Bearer <token>", only
\* when SaveSession(token) returned nil in this request.
C29_AuthGate ==
    \A p \in Procs :
        /\ Done(p, "index") =>
            LET cookie == req[p].cookie
                unknown(tok) == SessionRows(tok) = <<>> /\ ret[p].err \notin StoreErrors
            IN  /\ local[p].forwarded =>
                    \E tok \in AccessTokens :
                        /\ CarriesBearer(cookie, tok)
                        /\ req[p].session = <<tok>> /\ ret[p].err = "nil"
                        /\ SessionRows(tok) # <<>>
                /\ (\/ cookie = <<>>
                    \/ \E tok \in AccessTokens :
                          CarriesBearer(cookie, tok) /\
                              (unknown(tok) \/ ret[p].err = "session expired")) =>
                        local[p] = Redirect("callbackURL", <<>>)
                /\ (cookie # <<>> /\ \A tok \in AccessTokens : ~CarriesBearer(cookie, tok)) =>
                        /\ local[p] = HttpError("StatusUnauthorized")
                        /\ req[p].session = <<>>
        /\ Done(p, "callback") =>
            (local[p].cookie # <<>> =>
                \E tok \in AccessTokens :
                    /\ local[p].cookie = <<BearerValue(tok)>>
                    /\ req[p].session = <<tok>> /\ ret[p].err = "nil"
                    /\ SessionRows(tok) # <<>>)

\* C29 happens: callback saved two sessions; a request carrying the cookie
\* of the older one was redirected because the session had expired, and a
\* later request carrying the cookie of the newer one is forwarded
C29_Witness ==
    \E p \in Procs :
        /\ Done(p, "index") /\ CarriesBearer(req[p].cookie, "t1")
        /\ local[p].forwarded
        /\ hist["t1"].savedAt # <<>> /\ hist["t2"].savedAt # <<>>
        /\ hist["t2"].expired /\ now > hist["t1"].savedAt[1]

====
